---- MODULE Spec2Model ----
(***************************************************************************)
(* Model of the lfc news aggregator: the bullet store (db.rs), one run of  *)
(* the pipeline (app.rs run_scraper), the carryover merge, the novelty     *)
(* filter (ai_deduplicator.rs) and the token budget truncation             *)
(* (ai_summarizer.rs truncate_content).                                    *)
(***************************************************************************)
EXTENDS Integers, Sequences, FiniteSets

(***************************************************************************)
(* Bounds of the model.                                                    *)
(***************************************************************************)
MaxRuns == 2
MaxItems == 1
MaxToday == 2
MaxArticles == 3
MaxCarry == 3
MaxUrls == 3
\* capacity given to the channel of the scrape stage (200 in app.rs line 74)
ChanCap == 1

Texts == {"A", "B"}
MergeTexts == {"A", "B", "C", "D"}
Moods == {"mixed"}
TitleToks == {0, 60000}
BodyToks == {0, 39, 40, 41, 50000, 100000}

(***************************************************************************)
(* Program constants.                                                      *)
(***************************************************************************)
MAX_TOKENS == 100000
MIN_BODY_TOKENS == 40
SEP_TOKENS_PER_ARTICLE == 6
\* '0001-01-01T00:00:00Z', the COALESCE default of the carryover query
EPOCH == 0

(***************************************************************************)
(* Option<bool> of Bullet.accepted.                                        *)
(***************************************************************************)
None == "None"
SomeTrue == "Some(true)"
SomeFalse == "Some(false)"
Some(b) == IF b THEN SomeTrue ELSE SomeFalse

Bullet(t, a) == [text |-> t, accepted |-> a]

Range(s) == {s[i] : i \in 1..Len(s)}

SeqsUpTo(S, n) == UNION {[1..k -> S] : k \in 0..n}

VARIABLES
    \* ---- the store (sqlite file), committed state ----
    fetches,            \* ids of the rows of table fetches
    summaries,          \* rows of table summaries
    bullets,            \* rows of table bullets, in id order
    clock,              \* wall clock that supplies generated_at
    \* ---- the open transaction of insert_summary ----
    tx_summaries,       \* summary rows written inside the transaction
    tx_bullets,         \* bullet rows written inside the transaction
    \* ---- one run of run_scraper ----
    runs,               \* runs started so far
    pc,                 \* position of the current run
    no_ai, no_email, no_telegram,
    fetch_id,           \* 0 while the run has created no fetch
    summary,            \* result of summarize_articles
    published_bullets,
    carryover_bullets,
    merged,
    dedup_resp,         \* what the classifier call produced
    dedup_res,          \* Result of ai_deduplicate: "none", "ok", "err", "mismatch"
    processed_summary,
    persist_res,        \* Result of insert_summary: "none", "ok", "err"
    email_res,          \* "none", "skipped", "ok", "noop", "err"
    telegram_res,
    email_text,         \* text_clone handed to send_email, as pieces
    telegram_text,      \* text_clone handed to send_telegram_message
    \* ---- truncate_content ----
    title_tok, body_tok, keep_body, total, tpc,
    combined_text,      \* the String truncate_content returns, as pieces
    \* ---- the scrape stage of run_scraper ----
    new_urls,           \* the URLs to scrape, one scrape task each
    task,               \* position of every scrape task
    chan,               \* articles buffered in the mpsc channel
    tx,                 \* run_scraper still holds its Sender
    writer,             \* position of the writer task
    article,            \* article the writer received and has not inserted (0: none)
    db_handles,         \* tasks that own a Db connection
    articles,           \* rows of table articles of the run's fetch
    writer_log,         \* insert attempts the writer logged: <<article, inserted>>
    previous_articles,  \* what load_articles_for_latest_fetch returned
    spc                 \* position of run_scraper inside the scrape stage

store == <<fetches, summaries, bullets, clock>>
txvars == <<tx_summaries, tx_bullets>>
flags == <<no_ai, no_email, no_telegram>>
notif == <<email_res, telegram_res, email_text, telegram_text>>
locals == <<summary, published_bullets, carryover_bullets, merged,
            dedup_resp, dedup_res, processed_summary, persist_res>>
pvars == <<store, txvars, runs, pc, flags, fetch_id, locals, notif>>
tvars == <<title_tok, body_tok, keep_body, total, tpc, combined_text>>
svars == <<new_urls, task, chan, tx, writer, article, db_handles, articles,
           writer_log, previous_articles, spc>>
vars == <<pvars, tvars, svars>>

NoSummary == [mood |-> "", items |-> <<>>, date |-> 0]
NoResponse == [kind |-> "none", results |-> <<>>]

(***************************************************************************)
(* db.rs: queries                                                          *)
(***************************************************************************)
SentRows(S) == {s \in S : s.sent}

\* variant: the ORDER BY is lost, any sent summary may be selected
LatestPublishedFetchAnySent(S) == {s.fetch_id : s \in SentRows(S)}

\* SELECT s.fetch_id FROM summaries s WHERE s.sent = 1
\* ORDER BY s.generated_at DESC LIMIT 1   (a set: ties are the engine's choice)
LatestPublishedFetch(S) ==
    {s.fetch_id : s \in {r \in SentRows(S) :
                           \A o \in SentRows(S) : o.generated_at <= r.generated_at}}

\* variant: the accepted = 1 filter is lost
BulletsOfFetchAll(B, f) ==
    LET hit(b) == b.fetch_id = f
        rows == SelectSeq(B, hit)
    IN [i \in 1..Len(rows) |-> Bullet(rows[i].text, rows[i].accepted)]

\* SELECT text, accepted FROM bullets WHERE fetch_id = ? AND accepted = 1
BulletsOfFetchAccepted(B, f) ==
    LET hit(b) == b.fetch_id = f /\ b.accepted = SomeTrue
        rows == SelectSeq(B, hit)
    IN [i \in 1..Len(rows) |-> Bullet(rows[i].text, rows[i].accepted)]

\* fetch_latest_published_bullets: the results the engine may return
LatestPublishedBullets(S, B) ==
    IF LatestPublishedFetch(S) = {} THEN {<<>>}
    ELSE {BulletsOfFetchAccepted(B, f) : f \in LatestPublishedFetch(S)}

\* variant: the subquery finds no row, the COALESCE default always applies
MaxSentGeneratedAtEpoch(S) == EPOCH

\* COALESCE((SELECT MAX(generated_at) FROM summaries WHERE sent = 1), EPOCH)
MaxSentGeneratedAt(S) ==
    IF SentRows(S) = {} THEN EPOCH
    ELSE CHOOSE g \in {s.generated_at : s \in SentRows(S)} :
            \A s \in SentRows(S) : s.generated_at <= g

\* variant: the generated_at window is lost
CarryoverRowsNoWindow(S, B) ==
    {p \in (1..Len(B)) \X {s.generated_at : s \in S} :
        \E s \in S : /\ s.fetch_id = B[p[1]].fetch_id
                     /\ s.generated_at = p[2]
                     /\ ~s.sent
                     /\ B[p[1]].accepted = SomeTrue}

\* rows of bullets b JOIN summaries s that pass the WHERE clause, as
\* pairs <<index of b, generated_at of s>>
CarryoverRows(S, B) ==
    LET last == MaxSentGeneratedAt(S)
        open == {s \in S : ~s.sent /\ s.generated_at > last}
    IN {p \in (1..Len(B)) \X {s.generated_at : s \in open} :
          /\ B[p[1]].accepted = SomeTrue
          /\ \E s \in open : /\ s.fetch_id = B[p[1]].fetch_id
                              /\ s.generated_at = p[2]}

\* ORDER BY s.generated_at DESC, b.id DESC
RECURSIVE OrderDesc(_)
OrderDesc(R) ==
    IF R = {} THEN <<>>
    ELSE LET m == CHOOSE p \in R : \A q \in R :
                     \/ q[2] < p[2]
                     \/ (q[2] = p[2] /\ q[1] <= p[1])
         IN <<m>> \o OrderDesc(R \ {m})

\* SELECT DISTINCT: keep the first row of every (text, accepted)
RECURSIVE Distinct(_)
Distinct(s) ==
    IF s = <<>> THEN <<>>
    ELSE LET init == Distinct(SubSeq(s, 1, Len(s) - 1))
             last == s[Len(s)]
         IN IF last \in Range(init) THEN init ELSE Append(init, last)

UnpublishedAcceptedSinceLastPublished(S, B) ==
    LET ord == OrderDesc(CarryoverRows(S, B))
    IN Distinct([i \in 1..Len(ord) |->
                    Bullet(B[ord[i][1]].text, B[ord[i][1]].accepted)])

(***************************************************************************)
(* app.rs: carryover merge (lines 148-160)                                 *)
(***************************************************************************)
\* variant: every carryover bullet is pushed, seen or not
MergeLoopNoSeenCheck(items, seen, carry) ==
    items \o [i \in 1..Len(carry) |-> Bullet(carry[i].text, None)]

\* variant: an unseen carryover bullet is put in front of the list
RECURSIVE MergeLoopPrepend(_, _, _)
MergeLoopPrepend(items, seen, carry) ==
    IF carry = <<>> THEN items
    ELSE LET b == Head(carry)
         IN IF b.text \notin seen
            THEN MergeLoopPrepend(<<Bullet(b.text, None)>> \o items,
                                  seen \cup {b.text}, Tail(carry))
            ELSE MergeLoopPrepend(items, seen, Tail(carry))

\* variant: an unseen carryover bullet is pushed with the decision it had
RECURSIVE MergeLoopKeepsDecision(_, _, _)
MergeLoopKeepsDecision(items, seen, carry) ==
    IF carry = <<>> THEN items
    ELSE LET b == Head(carry)
         IN IF b.text \notin seen
            THEN MergeLoopKeepsDecision(Append(items, b),
                                        seen \cup {b.text}, Tail(carry))
            ELSE MergeLoopKeepsDecision(items, seen, Tail(carry))

RECURSIVE MergeLoop(_, _, _)
MergeLoop(items, seen, carry) ==
    IF carry = <<>> THEN items
    ELSE LET b == Head(carry)
         IN IF b.text \notin seen
            THEN MergeLoop(Append(items, Bullet(b.text, None)),
                           seen \cup {b.text}, Tail(carry))
            ELSE MergeLoop(items, seen, Tail(carry))

MergeCarryover(sum, carry) ==
    [mood |-> sum.mood,
     items |-> MergeLoop(sum.items, {b.text : b \in Range(sum.items)}, carry),
     date |-> sum.date]

(***************************************************************************)
(* ai_deduplicator.rs: ai_deduplicate.  resp is what the classifier call   *)
(* produced: kind "err" (call failed, no content, unparsable JSON) or      *)
(* kind "content" with the parsed results.                                 *)
(***************************************************************************)
Responses(n) ==
    {[kind |-> "err", results |-> <<>>]} \cup
    {[kind |-> "content", results |-> r] : r \in SeqsUpTo(BOOLEAN, n + 1)}

\* variant: no length check, zip stops at the shorter list
AiDeduplicateZip(current, resp) ==
    IF resp.kind = "err"
    THEN [res |-> "err", summary |-> NoSummary]
    ELSE LET n == IF Len(resp.results) < Len(current.items)
                  THEN Len(resp.results) ELSE Len(current.items)
         IN [res |-> "ok",
             summary |-> [mood |-> current.mood,
                          items |-> [i \in 1..n |->
                                       Bullet(current.items[i].text,
                                              Some(resp.results[i]))],
                          date |-> current.date]]

\* variant: only the bullets the classifier accepted are kept
AiDeduplicateDropsRejected(current, resp) ==
    IF resp.kind = "err"
    THEN [res |-> "err", summary |-> NoSummary]
    ELSE IF Len(resp.results) # Len(current.items)
    THEN [res |-> "mismatch", summary |-> NoSummary]
    ELSE LET kept == {i \in 1..Len(current.items) : resp.results[i]}
             nth(k) == CHOOSE i \in kept : Cardinality({j \in kept : j <= i}) = k
         IN [res |-> "ok",
             summary |-> [mood |-> current.mood,
                          items |-> [k \in 1..Cardinality(kept) |->
                                       Bullet(current.items[nth(k)].text, SomeTrue)],
                          date |-> current.date]]

AiDeduplicate(current, resp) ==
    IF resp.kind = "err"
    THEN [res |-> "err", summary |-> NoSummary]
    ELSE IF Len(resp.results) # Len(current.items)
    THEN [res |-> "mismatch", summary |-> NoSummary]
    ELSE [res |-> "ok",
          summary |-> [mood |-> current.mood,
                       items |-> [i \in 1..Len(current.items) |->
                                    Bullet(current.items[i].text,
                                           Some(resp.results[i]))],
                       date |-> current.date]]

(***************************************************************************)
(* db.rs: rows written by insert_summary and mark_summary_sent             *)
(***************************************************************************)
\* a row of summaries as INSERT INTO summaries (fetch_id, mood_text) leaves it
NewSummaryRow(f, mood, now) ==
    [fetch_id |-> f, mood_text |-> mood, sent |-> FALSE, generated_at |-> now]

BulletRow(f, b) == [fetch_id |-> f, text |-> b.text, accepted |-> b.accepted]

\* variant: SET sent = NOT sent
MarkSentToggle(S, f) ==
    {IF s.fetch_id = f THEN [s EXCEPT !.sent = ~s.sent] ELSE s : s \in S}

\* variant: the WHERE clause is lost
MarkSentAll(S, f) == {[s EXCEPT !.sent = TRUE] : s \in S}

\* UPDATE summaries SET sent = 1 WHERE fetch_id = ?
MarkSent(S, f) ==
    {IF s.fetch_id = f THEN [s EXCEPT !.sent = TRUE] ELSE s : s \in S}

(***************************************************************************)
(* Initial state: an empty store, no run started.                          *)
(***************************************************************************)
TruncIdle ==
    /\ title_tok = <<>> /\ body_tok = <<>> /\ keep_body = <<>>
    /\ total = 0 /\ tpc = "off"
    /\ combined_text = <<>>

ScrapeIdle ==
    /\ new_urls = {} /\ task = <<>> /\ chan = <<>> /\ tx = FALSE
    /\ writer = "unspawned" /\ article = 0 /\ db_handles = {}
    /\ articles = {} /\ writer_log = {} /\ previous_articles = {}
    /\ spc = "off"

RunLocalsInit ==
    /\ summary = NoSummary
    /\ published_bullets = <<>>
    /\ carryover_bullets = <<>>
    /\ merged = NoSummary
    /\ dedup_resp = NoResponse
    /\ dedup_res = "none"
    /\ processed_summary = NoSummary
    /\ persist_res = "none"
    /\ email_res = "none"
    /\ telegram_res = "none"
    /\ email_text = <<>> /\ telegram_text = <<>>
    /\ tx_summaries = {}
    /\ tx_bullets = <<>>

StoreEmpty ==
    /\ fetches = {} /\ summaries = {} /\ bullets = <<>> /\ clock = 1
    /\ runs = 0 /\ fetch_id = 0
    /\ no_ai = FALSE /\ no_email = FALSE /\ no_telegram = FALSE

Init ==
    /\ StoreEmpty
    /\ pc = "idle"
    /\ RunLocalsInit
    /\ TruncIdle
    /\ ScrapeIdle

(***************************************************************************)
(* app.rs: run_scraper, one action per step                                *)
(***************************************************************************)
Fail == pc' = "failed"

\* lines 19-71: flags, config, discovery, create_fetch
StartRun(ai, em, tg) ==
    /\ pc \in {"idle", "done", "failed"}
    /\ runs < MaxRuns
    /\ runs' = runs + 1
    /\ clock' = clock + 1
    /\ no_ai' = ai /\ no_email' = em /\ no_telegram' = tg
    /\ summary' = NoSummary
    /\ published_bullets' = <<>>
    /\ carryover_bullets' = <<>>
    /\ merged' = NoSummary
    /\ dedup_resp' = NoResponse
    /\ dedup_res' = "none"
    /\ processed_summary' = NoSummary
    /\ persist_res' = "none"
    /\ email_res' = "none"
    /\ telegram_res' = "none"
    /\ email_text' = <<>> /\ telegram_text' = <<>>
    /\ \/ \* config created or incomplete, or no new article: return Ok(())
          /\ pc' = "done" /\ fetch_id' = 0 /\ fetches' = fetches
       \/ \* a step before create_fetch, or create_fetch itself, fails
          /\ Fail /\ fetch_id' = 0 /\ fetches' = fetches
       \/ \* create_fetch
          /\ fetch_id' = Cardinality(fetches) + 1
          /\ fetches' = fetches \cup {Cardinality(fetches) + 1}
          /\ pc' = "created"
    /\ UNCHANGED <<summaries, bullets, txvars, tvars, svars>>

\* lines 73-135: the scrape stage has ended and the writer has been joined
WriterDone ==
    /\ pc = "created"
    /\ pc' = IF no_ai THEN "done" ELSE "summarize"
    /\ UNCHANGED <<store, txvars, runs, flags, fetch_id, locals, notif, tvars, svars>>

\* lines 137-141: summarize_articles; every bullet starts with accepted None
Summarize ==
    /\ pc = "summarize"
    /\ \/ \E m \in Moods, ts \in SeqsUpTo(Texts, MaxItems) :
            /\ summary' = [mood |-> m,
                           items |-> [i \in 1..Len(ts) |-> Bullet(ts[i], None)],
                           date |-> clock]
            /\ pc' = "summarized"
       \/ Fail /\ summary' = summary
    /\ UNCHANGED <<store, txvars, runs, flags, fetch_id, published_bullets,
                   carryover_bullets, merged, dedup_resp, dedup_res,
                   processed_summary,
                   persist_res, notif, tvars, svars>>

\* line 144
FetchLatestPublishedBullets ==
    /\ pc = "summarized"
    /\ \/ /\ published_bullets' \in LatestPublishedBullets(summaries, bullets)
          /\ pc' = "pub_loaded"
       \/ Fail /\ published_bullets' = published_bullets
    /\ UNCHANGED <<store, txvars, runs, flags, fetch_id, summary,
                   carryover_bullets, merged, dedup_resp, dedup_res,
                   processed_summary,
                   persist_res, notif, tvars, svars>>

\* line 146
FetchCarryover ==
    /\ pc = "pub_loaded"
    /\ \/ /\ carryover_bullets' =
                UnpublishedAcceptedSinceLastPublished(summaries, bullets)
          /\ pc' = "carry_loaded"
       \/ Fail /\ carryover_bullets' = carryover_bullets
    /\ UNCHANGED <<store, txvars, runs, flags, fetch_id, summary,
                   published_bullets, merged, dedup_resp, dedup_res,
                   processed_summary,
                   persist_res, notif, tvars, svars>>

\* lines 148-160
Merge ==
    /\ pc = "carry_loaded"
    /\ merged' = MergeCarryover(summary, carryover_bullets)
    /\ pc' = "merged"
    /\ UNCHANGED <<store, txvars, runs, flags, fetch_id, summary,
                   published_bullets, carryover_bullets, dedup_resp, dedup_res,
                   processed_summary, persist_res, notif, tvars, svars>>

\* line 164, ai_deduplicator.rs lines 21-88: the request is built and sent;
\* the call then awaits the classifier with no timeout around it
DedupCall ==
    /\ pc = "merged"
    /\ \/ pc' = "dedup_wait" /\ dedup_res' = dedup_res
       \/ \* the request cannot be built
          Fail /\ dedup_res' = "err"
    /\ UNCHANGED <<store, txvars, runs, flags, fetch_id, summary,
                   published_bullets, carryover_bullets, merged, dedup_resp,
                   processed_summary, persist_res, notif, tvars, svars>>

\* ai_deduplicator.rs lines 88-124: the classifier call returns
Deduplicate ==
    /\ pc = "dedup_wait"
    /\ \E resp \in Responses(Len(merged.items)) :
         LET out == AiDeduplicate(merged, resp)
         IN /\ dedup_resp' = resp
            /\ dedup_res' = out.res
            /\ processed_summary' = out.summary
            /\ pc' = IF out.res = "ok" THEN "deduped" ELSE "failed"
    /\ UNCHANGED <<store, txvars, runs, flags, fetch_id, summary,
                   published_bullets, carryover_bullets, merged,
                   persist_res, notif, tvars, svars>>

(***************************************************************************)
(* db.rs: insert_summary (lines 84-110), statement by statement.  Rows     *)
(* written inside the transaction stay in tx_summaries / tx_bullets until  *)
(* commit; dropping the transaction on an early return rolls them back.    *)
(***************************************************************************)
\* line 85: self.conn.transaction()
TxBegin ==
    /\ pc = "deduped"
    /\ tx_summaries' = {} /\ tx_bullets' = <<>>
    /\ pc' = "tx_mood"
    /\ UNCHANGED <<store, runs, flags, fetch_id, locals, notif, tvars, svars>>

\* lines 88-91: INSERT INTO summaries
TxInsertMood ==
    /\ pc = "tx_mood"
    /\ tx_summaries' =
         {NewSummaryRow(fetch_id, processed_summary.mood, clock)}
    /\ pc' = "tx_bullets"
    /\ UNCHANGED <<store, tx_bullets, runs, flags, fetch_id, locals, notif,
                   tvars, svars>>

\* lines 98-104: one INSERT INTO bullets of the loop
TxInsertBullet ==
    /\ pc = "tx_bullets"
    /\ Len(tx_bullets) < Len(processed_summary.items)
    /\ tx_bullets' = Append(tx_bullets,
         BulletRow(fetch_id, processed_summary.items[Len(tx_bullets) + 1]))
    /\ UNCHANGED <<store, tx_summaries, runs, pc, flags, fetch_id, locals,
                   notif, tvars, svars>>

\* variant: INSERT OR REPLACE keyed on the text: a stored bullet with the
\* text of a new one takes the new decision
CommitReplace(S, B, txS, txB) ==
    [summaries |-> S \cup txS,
     bullets |->
        [k \in 1..Len(B) |->
            IF \E j \in 1..Len(txB) : txB[j].text = B[k].text
            THEN [B[k] EXCEPT !.accepted =
                    txB[CHOOSE j \in 1..Len(txB) : txB[j].text = B[k].text].accepted]
            ELSE B[k]] \o txB]

\* what tx.commit() makes of the store
Commit(S, B, txS, txB) == [summaries |-> S \cup txS, bullets |-> B \o txB]

\* variant: the writes made before the failure stay in the store
RollbackKeepsWrites(S, B, txS, txB) == [summaries |-> S \cup txS, bullets |-> B \o txB]

\* what dropping the uncommitted transaction makes of the store
Rollback(S, B, txS, txB) == [summaries |-> S, bullets |-> B]

\* lines 106-109: tx.commit() succeeds
TxCommit ==
    /\ pc = "tx_bullets"
    /\ Len(tx_bullets) = Len(processed_summary.items)
    /\ LET after == Commit(summaries, bullets, tx_summaries, tx_bullets)
       IN /\ summaries' = after.summaries
          /\ bullets' = after.bullets
    /\ tx_summaries' = {} /\ tx_bullets' = <<>>
    /\ persist_res' = "ok"
    /\ pc' = "persisted"
    /\ UNCHANGED <<fetches, clock, runs, flags, fetch_id, summary,
                   published_bullets, carryover_bullets, merged, dedup_resp,
                   dedup_res, processed_summary, notif, tvars, svars>>

\* variant: the error is logged and the run goes on (as for insert_article)
TxFailLogged ==
    /\ pc \in {"deduped", "tx_mood", "tx_bullets"}
    /\ tx_summaries' = {} /\ tx_bullets' = <<>>
    /\ persist_res' = "err"
    /\ pc' = "persisted"
    /\ UNCHANGED <<store, runs, flags, fetch_id, summary,
                   published_bullets, carryover_bullets, merged, dedup_resp,
                   dedup_res, processed_summary, notif, tvars, svars>>

\* any statement of insert_summary (begin, mood insert, prepare, a bullet
\* insert, commit) returns Err: the ? operator leaves the function
TxFail ==
    /\ pc \in {"deduped", "tx_mood", "tx_bullets"}
    /\ LET after == Rollback(summaries, bullets, tx_summaries, tx_bullets)
       IN /\ summaries' = after.summaries
          /\ bullets' = after.bullets
    /\ tx_summaries' = {} /\ tx_bullets' = <<>>
    /\ persist_res' = "err"
    /\ Fail
    /\ UNCHANGED <<fetches, clock, runs, flags, fetch_id, summary,
                   published_bullets, carryover_bullets, merged, dedup_resp,
                   dedup_res, processed_summary, notif, tvars, svars>>

(***************************************************************************)
(* app.rs: notifications (lines 185-218) and mark_summary_sent (line 220)  *)
(***************************************************************************)
\* outcome of a channel task: "skipped" by its flag; otherwise the send
\* returns Ok after delivering ("ok"), Ok without recipients ("noop"), or Err
ChannelOutcomes(disabled) ==
    IF disabled THEN {"skipped"} ELSE {"ok", "noop", "err"}

\* String::trim on pieces: whitespace pieces at both ends are dropped
IsWhitespace(p) == p \in {"", "\n\n"}

RECURSIVE TrimStart(_)
TrimStart(t) ==
    IF t # <<>> /\ IsWhitespace(Head(t)) THEN TrimStart(Tail(t)) ELSE t

RECURSIVE TrimEnd(_)
TrimEnd(t) ==
    IF t # <<>> /\ IsWhitespace(t[Len(t)])
    THEN TrimEnd(SubSeq(t, 1, Len(t) - 1)) ELSE t

Trim(t) == TrimEnd(TrimStart(t))

\* utils.rs lines 11-15: "- {text}\n\n" for every accepted bullet
RECURSIVE BulletLines(_)
BulletLines(items) ==
    IF items = <<>> THEN <<>>
    ELSE (IF Head(items).accepted = SomeTrue
          THEN <<"- ", Head(items).text, "\n\n">> ELSE <<>>)
         \o BulletLines(Tail(items))

\* variant: the accepted == Some(true) test is lost
FormatSummaryPlainTextUnfiltered(sum) ==
    Trim(<<sum.mood, "\n\n">> \o
         BulletLines([i \in 1..Len(sum.items) |->
                        Bullet(sum.items[i].text, SomeTrue)]))

\* utils.rs lines 4-18
FormatSummaryPlainText(sum) ==
    Trim(<<sum.mood, "\n\n">> \o BulletLines(sum.items))

\* lines 186-195: the task of a disabled channel is handed no text
SendEmail ==
    /\ pc = "persisted"
    /\ email_res = "none"
    /\ email_res' \in ChannelOutcomes(no_email)
    /\ email_text' = IF no_email THEN <<>>
                     ELSE FormatSummaryPlainText(processed_summary)
    /\ UNCHANGED <<store, txvars, runs, pc, flags, fetch_id, locals,
                   telegram_res, telegram_text, tvars, svars>>

\* lines 186, 197-204
SendTelegram ==
    /\ pc = "persisted"
    /\ telegram_res = "none"
    /\ telegram_res' \in ChannelOutcomes(no_telegram)
    /\ telegram_text' = IF no_telegram THEN <<>>
                        ELSE FormatSummaryPlainText(processed_summary)
    /\ UNCHANGED <<store, txvars, runs, pc, flags, fetch_id, locals,
                   email_res, email_text, tvars, svars>>

\* variant: line 220 is reached only when no channel returned Err
MayMarkSentIfDelivered(er, tr) ==
    er \in {"skipped", "ok", "noop"} /\ tr \in {"skipped", "ok", "noop"}

\* line 220 is reached whatever the two results are
MayMarkSent(er, tr) == er # "none" /\ tr # "none"

MarkSummarySent ==
    /\ pc = "persisted"
    /\ MayMarkSent(email_res, telegram_res)
    /\ \/ /\ summaries' = MarkSent(summaries, fetch_id)
          /\ pc' = "done"
       \/ Fail /\ summaries' = summaries
    /\ UNCHANGED <<fetches, bullets, clock, txvars, runs, flags, fetch_id,
                   locals, notif, tvars, svars>>

Next ==
    \/ \E ai \in BOOLEAN, em \in BOOLEAN, tg \in BOOLEAN : StartRun(ai, em, tg)
    \/ WriterDone
    \/ Summarize
    \/ FetchLatestPublishedBullets
    \/ FetchCarryover
    \/ Merge
    \/ DedupCall
    \/ Deduplicate
    \/ TxBegin
    \/ TxInsertMood
    \/ TxInsertBullet
    \/ TxCommit
    \/ TxFail
    \/ SendEmail
    \/ SendTelegram
    \/ MarkSummarySent

Spec == Init /\ [][Next]_vars

\* the steps run_scraper takes by itself once started: every await of the
\* run other than the classifier call of ai_deduplicate returns (local
\* sqlite calls, the summarizer call under its 60 s timeout, the channel
\* tasks joined at line 206)
RunSteps ==
    \/ WriterDone
    \/ Summarize
    \/ FetchLatestPublishedBullets
    \/ FetchCarryover
    \/ Merge
    \/ DedupCall
    \/ TxBegin
    \/ TxInsertMood
    \/ TxInsertBullet
    \/ TxCommit
    \/ TxFail
    \/ SendEmail
    \/ SendTelegram
    \/ MarkSummarySent

SpecFair == Spec /\ WF_vars(RunSteps)

(***************************************************************************)
(* The carryover merge on its own: every list of today's bullets (as       *)
(* summarize_articles builds them, accepted = None) against every list the *)
(* carryover query can return (distinct texts, accepted = Some(true)).     *)
(***************************************************************************)
TodayLists ==
    {[i \in 1..Len(ts) |-> Bullet(ts[i], None)] : ts \in SeqsUpTo(MergeTexts, MaxToday)}

CarryoverLists ==
    {[i \in 1..Len(ts) |-> Bullet(ts[i], SomeTrue)] :
        ts \in {t \in SeqsUpTo(MergeTexts, MaxCarry) :
                  \A i, j \in 1..Len(t) : t[i] = t[j] => i = j}}

InitMerge ==
    /\ StoreEmpty
    /\ pc = "carry_loaded"
    /\ \E m \in Moods, t \in TodayLists :
         summary = [mood |-> m, items |-> t, date |-> clock]
    /\ carryover_bullets \in CarryoverLists
    /\ published_bullets = <<>>
    /\ merged = NoSummary
    /\ dedup_resp = NoResponse
    /\ dedup_res = "none"
    /\ processed_summary = NoSummary
    /\ persist_res = "none"
    /\ email_res = "none"
    /\ telegram_res = "none"
    /\ email_text = <<>> /\ telegram_text = <<>>
    /\ tx_summaries = {}
    /\ tx_bullets = <<>>
    /\ TruncIdle
    /\ ScrapeIdle

NextMerge == Merge

SpecMerge == InitMerge /\ [][NextMerge]_vars

(***************************************************************************)
(* One run from the summary on: the first run on an empty store, for every *)
(* summary summarize_articles can return with up to MaxToday bullets       *)
(* (repeated texts included) and every setting of the channel flags.       *)
(***************************************************************************)
InitBatch ==
    /\ fetches = {1} /\ summaries = {} /\ bullets = <<>> /\ clock = 2
    /\ runs = 1 /\ fetch_id = 1
    /\ no_ai = FALSE /\ no_email \in BOOLEAN /\ no_telegram \in BOOLEAN
    /\ pc = "summarized"
    /\ \E m \in Moods, t \in TodayLists :
         summary = [mood |-> m, items |-> t, date |-> clock]
    /\ published_bullets = <<>>
    /\ carryover_bullets = <<>>
    /\ merged = NoSummary
    /\ dedup_resp = NoResponse
    /\ dedup_res = "none"
    /\ processed_summary = NoSummary
    /\ persist_res = "none"
    /\ email_res = "none"
    /\ telegram_res = "none"
    /\ email_text = <<>> /\ telegram_text = <<>>
    /\ tx_summaries = {}
    /\ tx_bullets = <<>>
    /\ TruncIdle
    /\ ScrapeIdle

NextBatch ==
    \/ FetchLatestPublishedBullets
    \/ FetchCarryover
    \/ Merge
    \/ DedupCall
    \/ Deduplicate
    \/ TxBegin
    \/ TxInsertMood
    \/ TxInsertBullet
    \/ TxCommit
    \/ TxFail
    \/ SendEmail
    \/ SendTelegram
    \/ MarkSummarySent

SpecBatch == InitBatch /\ [][NextBatch]_vars

(***************************************************************************)
(* db.rs: mark_summary_sent on its own, called any number of times on      *)
(* every store of up to MaxRuns fetches: a fetch has no summary row, an    *)
(* unsent one or a sent one, and no bullet or one accepted bullet.         *)
(***************************************************************************)
StoredSummaries(n) ==
    {S \in SUBSET {[fetch_id |-> f, mood_text |-> m, sent |-> b,
                    generated_at |-> f + 1] :
                      f \in 1..n, m \in Moods, b \in BOOLEAN} :
        \A s, t \in S : s.fetch_id = t.fetch_id => s = t}

StoredBullets(S) ==
    {B \in SeqsUpTo({[fetch_id |-> s.fetch_id, text |-> t, accepted |-> SomeTrue] :
                        s \in S, t \in {"A"}}, Cardinality(S)) :
        \A i, j \in 1..Len(B) : i < j => B[i].fetch_id < B[j].fetch_id}

InitMark ==
    /\ \E n \in 0..MaxRuns :
         /\ fetches = 1..n
         /\ runs = n
         /\ clock = n + 1
         /\ summaries \in StoredSummaries(n)
    /\ bullets \in StoredBullets(summaries)
    /\ fetch_id = 0
    /\ no_ai = FALSE /\ no_email = FALSE /\ no_telegram = FALSE
    /\ pc = "idle"
    /\ RunLocalsInit
    /\ TruncIdle
    /\ ScrapeIdle

\* db.rs lines 158-164 called with fetch f; pc tells whether the call
\* repeats the call made just before
MarkSummarySentCall(f) ==
    /\ \/ summaries' = MarkSent(summaries, f)
       \/ \* execute returns Err: nothing is written
          summaries' = summaries
    /\ fetch_id' = f
    /\ pc' = IF pc \in {"marked", "marked_again"} /\ fetch_id = f
              THEN "marked_again" ELSE "marked"
    /\ UNCHANGED <<fetches, bullets, clock, txvars, runs, flags, locals,
                   notif, tvars, svars>>

NextMark == \E f \in fetches : MarkSummarySentCall(f)

SpecMark == InitMark /\ [][NextMark]_vars

(***************************************************************************)
(* app.rs lines 73-139: the scrape stage of one run.  run_scraper creates  *)
(* the channel, hands its Db to the writer task, spawns one scrape task    *)
(* per URL (each with a clone of the Sender), drops its own Sender and     *)
(* awaits the writer; the rest of the run follows.                         *)
(***************************************************************************)
runvars == <<store, txvars, runs, flags, fetch_id, locals, notif, tvars>>

InitScrape ==
    /\ fetches = {1} /\ summaries = {} /\ bullets = <<>> /\ clock = 2
    /\ runs = 1 /\ fetch_id = 1
    /\ no_ai \in BOOLEAN /\ no_email = TRUE /\ no_telegram = TRUE
    /\ pc = "created"
    /\ RunLocalsInit
    /\ TruncIdle
    /\ \E n \in 1..MaxUrls :
         /\ new_urls = 1..n
         /\ task = [i \in 1..n |-> "unspawned"]
    /\ chan = <<>> /\ tx = TRUE
    /\ writer = "unspawned" /\ article = 0
    \* the Db opened at line 49
    /\ db_handles = {"main"}
    /\ articles = {} /\ writer_log = {} /\ previous_articles = {}
    /\ spc = "channel"

\* lines 78-79: db is moved into the spawned writer task
SpawnWriter ==
    /\ pc = "created" /\ spc = "channel"
    /\ writer' = "recv"
    /\ db_handles' = (db_handles \ {"main"}) \cup {"writer"}
    /\ spc' = "client"
    /\ UNCHANGED <<runvars, pc, new_urls, task, chan, tx, article, articles,
                   writer_log, previous_articles>>

\* lines 91-94: build()? either gives the client or returns from
\* run_scraper, which drops tx
BuildClient ==
    /\ pc = "created" /\ spc = "client"
    /\ \/ spc' = "spawning" /\ UNCHANGED <<pc, tx>>
       \/ Fail /\ spc' = "returned" /\ tx' = FALSE
    /\ UNCHANGED <<runvars, new_urls, task, chan, writer, article, db_handles,
                   articles, writer_log, previous_articles>>

\* lines 98-103: one turn of the loop: tx.clone() and tokio::spawn
SpawnScrape ==
    /\ pc = "created" /\ spc = "spawning"
    /\ \E i \in new_urls :
         /\ task[i] = "unspawned"
         /\ \A j \in new_urls : j < i => task[j] # "unspawned"
         /\ task' = [task EXCEPT ![i] = "extract"]
    /\ UNCHANGED <<runvars, pc, new_urls, chan, tx, writer, article,
                   db_handles, articles, writer_log, previous_articles, spc>>

\* line 126: drop(tx) after the loop
DropTx ==
    /\ pc = "created" /\ spc = "spawning"
    /\ \A i \in new_urls : task[i] # "unspawned"
    /\ tx' = FALSE
    /\ spc' = "await"
    /\ UNCHANGED <<runvars, pc, new_urls, task, chan, writer, article,
                   db_handles, articles, writer_log, previous_articles>>

\* lines 105-111, 119-121: the extractor returns Ok(article) or Err (logged,
\* the task ends and drops its Sender)
ScrapeExtract(i) ==
    /\ task[i] = "extract"
    /\ \E r \in {"send", "failed"} : task' = [task EXCEPT ![i] = r]
    /\ UNCHANGED <<runvars, pc, new_urls, chan, tx, writer, article,
                   db_handles, articles, writer_log, previous_articles, spc>>

\* the Receiver lives in the writer task until that task ends
RxOpen == writer # "done"

\* lines 113-117: tx.send(article).await waits for a free slot; it returns
\* Err when the Receiver is gone
ScrapeSend(i) ==
    /\ task[i] = "send"
    /\ IF RxOpen
       THEN /\ Len(chan) < ChanCap
            /\ chan' = Append(chan, i)
            /\ task' = [task EXCEPT ![i] = "sent"]
       ELSE /\ chan' = chan
            /\ task' = [task EXCEPT ![i] = "closed"]
    /\ UNCHANGED <<runvars, pc, new_urls, tx, writer, article,
                   db_handles, articles, writer_log, previous_articles, spc>>

\* variant: only the Sender of run_scraper counts, the clones do not
NoSenderLeftButClones == ~tx

\* every Sender is dropped: run_scraper's own and the clone of every scrape
\* task that is still running
NoSenderLeft ==
    ~tx /\ \A i \in new_urls : task[i] \notin {"extract", "send"}

\* line 80: rx.recv() returns Some(article)
WriterRecv ==
    /\ writer = "recv" /\ article = 0
    /\ chan # <<>>
    /\ article' = Head(chan)
    /\ chan' = Tail(chan)
    /\ UNCHANGED <<runvars, pc, new_urls, task, tx, writer, db_handles,
                   articles, writer_log, previous_articles, spc>>

\* lines 81-85: insert_article; an Err is logged and the loop goes on
WriterInsert ==
    /\ writer = "recv" /\ article # 0
    /\ \E ok \in BOOLEAN :
         /\ articles' = IF ok THEN articles \cup {article} ELSE articles
         /\ writer_log' = writer_log \cup {<<article, ok>>}
    /\ article' = 0
    /\ UNCHANGED <<runvars, pc, new_urls, task, chan, tx, writer, db_handles,
                   previous_articles, spc>>

\* lines 80, 87-88: rx.recv() returns None (buffer empty, no Sender left);
\* the task ends and drops rx and db_writer
WriterExit ==
    /\ writer = "recv" /\ article = 0
    /\ chan = <<>>
    /\ NoSenderLeft
    /\ writer' = "done"
    /\ db_handles' = db_handles \ {"writer"}
    /\ UNCHANGED <<runvars, pc, new_urls, task, chan, tx, article,
                   articles, writer_log, previous_articles, spc>>

\* variant: the JoinHandle is not awaited
WriterNotAwaited == TRUE

\* line 129: writer_handle.await returns when the writer task has ended
WriterJoined == writer = "done"

\* lines 129-135
JoinWriter ==
    /\ pc = "created" /\ spc = "await"
    /\ WriterJoined
    /\ spc' = "joined"
    /\ pc' = IF no_ai THEN "done" ELSE "summarize"
    /\ UNCHANGED <<runvars, new_urls, task, chan, tx, writer, article,
                   db_handles, articles, writer_log, previous_articles>>

\* lines 138-139: Db::open and load_articles_for_latest_fetch
LoadArticles ==
    /\ pc = "summarize" /\ spc = "joined"
    /\ \/ /\ db_handles' = db_handles \cup {"main"}
          /\ previous_articles' = articles
          /\ spc' = "loaded"
          /\ pc' = pc
       \/ /\ Fail
          /\ spc' = "returned"
          /\ UNCHANGED <<db_handles, previous_articles>>
    /\ UNCHANGED <<runvars, new_urls, task, chan, tx, writer, article,
                   articles, writer_log>>

\* lines 140-141, once the articles are loaded
ScrapeSummarize == spc = "loaded" /\ Summarize

NextScrape ==
    \/ SpawnWriter
    \/ BuildClient
    \/ SpawnScrape
    \/ DropTx
    \/ \E i \in new_urls : ScrapeExtract(i)
    \/ \E i \in new_urls : ScrapeSend(i)
    \/ WriterRecv
    \/ WriterInsert
    \/ WriterExit
    \/ JoinWriter
    \/ LoadArticles
    \/ ScrapeSummarize
    \/ FetchLatestPublishedBullets
    \/ FetchCarryover
    \/ Merge
    \/ DedupCall
    \/ Deduplicate
    \/ TxBegin
    \/ TxInsertMood
    \/ TxInsertBullet
    \/ TxCommit
    \/ TxFail
    \/ SendEmail
    \/ SendTelegram
    \/ MarkSummarySent

SpecScrape == InitScrape /\ [][NextScrape]_vars

\* what the tokio scheduler runs by itself: run_scraper, the writer task
\* and a send that waits for a slot; the extractor's network calls are not
\* among them
StageSteps ==
    \/ SpawnWriter
    \/ BuildClient
    \/ SpawnScrape
    \/ DropTx
    \/ \E i \in new_urls : ScrapeSend(i)
    \/ WriterRecv
    \/ WriterInsert
    \/ WriterExit
    \/ JoinWriter
    \/ LoadArticles

SpecScrapeFair == SpecScrape /\ WF_vars(StageSteps)

(***************************************************************************)
(* ai_summarizer.rs: truncate_content (lines 162-270) on token counts      *)
(***************************************************************************)
Min(a, b) == IF a < b THEN a ELSE b
Max(a, b) == IF a > b THEN a ELSE b
\* usize::saturating_sub
SatSub(a, b) == IF a > b THEN a - b ELSE 0

RECURSIVE SumSeq(_)
SumSeq(q) == IF q = <<>> THEN 0 ELSE Head(q) + SumSeq(Tail(q))

\* variant: an entry exactly at the floor still counts as trimmable
TrimmableAtFloor(k) == k >= MIN_BODY_TOKENS

\* line 205: entries at or below the floor are skipped
Trimmable(k) == k > MIN_BODY_TOKENS

\* lines 199-219: the scan of find_two_largest; 0 stands for None
RECURSIVE FindScan(_, _, _, _)
FindScan(keep, i, mi, si) ==
    IF i > Len(keep) THEN <<mi, si>>
    ELSE IF ~Trimmable(keep[i]) THEN FindScan(keep, i + 1, mi, si)
    ELSE IF mi = 0 THEN FindScan(keep, i + 1, i, si)
    ELSE IF keep[i] > keep[mi] THEN FindScan(keep, i + 1, i, mi)
    ELSE IF (si = 0 \/ keep[i] > keep[si]) /\ i # mi
         THEN FindScan(keep, i + 1, mi, i)
    ELSE FindScan(keep, i + 1, mi, si)

\* variant: the pair is returned as (second, max)
FindTwoLargestSwapped(keep) ==
    LET r == FindScan(keep, 1, 0, 0)
    IN [some |-> r[1] # 0,
        imax |-> IF r[2] = 0 THEN r[1] ELSE r[2],
        isecond |-> r[1]]

FindTwoLargest(keep) ==
    LET r == FindScan(keep, 1, 0, 0)
    IN [some |-> r[1] # 0,
        imax |-> r[1],
        isecond |-> IF r[2] = 0 THEN r[1] ELSE r[2]]

\* variant: the shave is not capped by what is still needed
ShaveWholeDiff(keep, imax, isecond, needed) ==
    LET diff0 == SatSub(keep[imax], Max(keep[isecond], MIN_BODY_TOKENS))
    IN IF diff0 = 0
       THEN Max(Min(SatSub(keep[imax], MIN_BODY_TOKENS), needed), 1)
       ELSE diff0

\* variant: a tie of the two largest is not forced to give a token
ShaveNothingOnTie(keep, imax, isecond, needed) ==
    Min(SatSub(keep[imax], Max(keep[isecond], MIN_BODY_TOKENS)), needed)

\* variant: the largest body gives up all that is needed, floor or not
ShaveBelowFloor(keep, imax, isecond, needed) == Min(keep[imax], needed)

\* lines 233-246: the shave of one iteration
Shave(keep, imax, isecond, needed) ==
    LET max_len == keep[imax]
        second_len == keep[isecond]
        target_len == Max(second_len, MIN_BODY_TOKENS)
        diff0 == SatSub(max_len, target_len)
        diff == IF diff0 = 0
                THEN Max(Min(SatSub(max_len, MIN_BODY_TOKENS), needed), 1)
                ELSE diff0
    IN Min(diff, needed)

(***************************************************************************)
(* Text of truncate_content's result.  A String is a sequence of pieces:   *)
(* the title of article i, the text of article i as given, the text that   *)
(* bpe.decode makes of the first n tokens of article i, and the "\n\n"     *)
(* written by format! and join.                                            *)
(***************************************************************************)
Piece(k, i, n) == [kind |-> k, art |-> i, n |-> n]
BlankLine == Piece("\n\n", 0, 0)
OgTitle(i) == Piece("og_title", i, title_tok[i])
Text(i) == Piece("text", i, body_tok[i])

\* lines 153-160: decode_first_n_tokens; ok is whether bpe.decode returned
\* Ok, and unwrap_or_default turns its Err into the empty String
DecodeFirstNTokens(i, n, ok) ==
    IF n = 0 \/ body_tok[i] = 0 THEN Piece("decoded", i, 0)
    ELSE IF ok THEN Piece("decoded", i, Min(body_tok[i], n))
    ELSE Piece("decoded", i, 0)

\* format!("{}\n\n{}", title, body)
FormatArticle(title, body) == <<title, BlankLine, body>>

\* Vec<String>::join("\n\n")
RECURSIVE JoinBlank(_)
JoinBlank(parts) ==
    IF parts = <<>> THEN <<>>
    ELSE IF Len(parts) = 1 THEN parts[1]
    ELSE parts[1] \o <<BlankLine>> \o JoinBlank(Tail(parts))

\* variant: the articles are written last to first
CombinedReversed(n) ==
    JoinBlank([i \in 1..n |-> FormatArticle(OgTitle(n + 1 - i), Text(n + 1 - i))])

\* lines 188-195: the plain concatenation of the early return
Combined(n) ==
    JoinBlank([i \in 1..n |-> FormatArticle(OgTitle(i), Text(i))])

\* lines 260-267: the text rebuilt from the kept lengths; lost is the set
\* of articles whose token prefix bpe.decode rejects
FinalText(keep, lost) ==
    JoinBlank([i \in 1..Len(keep) |->
                 FormatArticle(OgTitle(i),
                               DecodeFirstNTokens(i, keep[i], i \notin lost))])

\* a strict, non-empty prefix of the token ids may end inside a character
MayFailDecode(keep) ==
    {i \in 1..Len(keep) : 0 < keep[i] /\ keep[i] < body_tok[i]}

\* lines 182-184
InitialTotal(titles, keep) ==
    SumSeq(titles) + SumSeq(keep) + SEP_TOKENS_PER_ARTICLE * Len(keep)

InitTrunc ==
    /\ StoreEmpty
    /\ pc = "idle"
    /\ RunLocalsInit
    /\ \E n \in 0..MaxArticles :
         /\ title_tok \in [1..n -> TitleToks]
         /\ body_tok \in [1..n -> BodyToks]
    /\ keep_body = <<>>
    /\ total = 0
    /\ tpc = "start"
    /\ combined_text = <<>>
    /\ ScrapeIdle

\* line 164: o200k_base() returns Err and unwrap() panics; nothing is
\* returned
TruncPanic ==
    /\ tpc = "start"
    /\ tpc' = "panicked"
    /\ UNCHANGED <<pvars, svars, title_tok, body_tok, keep_body, total, combined_text>>

\* lines 167-196: count, and return the plain concatenation when it fits
TruncCount ==
    /\ tpc = "start"
    /\ keep_body' = body_tok
    /\ total' = InitialTotal(title_tok, body_tok)
    /\ IF InitialTotal(title_tok, body_tok) <= MAX_TOKENS
       THEN /\ combined_text' = Combined(Len(body_tok))
            /\ tpc' = "returned"
       ELSE /\ combined_text' = combined_text
            /\ tpc' = "loop"
    /\ UNCHANGED <<pvars, svars, title_tok, body_tok>>

\* lines 223-256: the while test and one iteration of the loop
TruncIterate ==
    /\ tpc = "loop"
    /\ LET f == FindTwoLargest(keep_body)
           shave == Shave(keep_body, f.imax, f.isecond, total - MAX_TOKENS)
       IN IF total <= MAX_TOKENS \/ ~f.some
          THEN /\ tpc' = "rebuild"
               /\ UNCHANGED <<keep_body, total>>
          ELSE IF shave = 0
          THEN /\ tpc' = "rebuild"
               /\ UNCHANGED <<keep_body, total>>
          ELSE /\ keep_body' = [keep_body EXCEPT ![f.imax] = SatSub(@, shave)]
               /\ total' = SatSub(total, shave)
               /\ tpc' = "loop"
    /\ UNCHANGED <<pvars, svars, title_tok, body_tok, combined_text>>

\* lines 258-269: rebuild the text from the kept lengths
TruncRebuild ==
    /\ tpc = "rebuild"
    /\ \E lost \in SUBSET MayFailDecode(keep_body) :
         combined_text' = FinalText(keep_body, lost)
    /\ tpc' = "rebuilt"
    /\ UNCHANGED <<pvars, svars, title_tok, body_tok, keep_body, total>>

NextTrunc ==
    \/ TruncPanic
    \/ TruncCount
    \/ TruncIterate
    \/ TruncRebuild

SpecTrunc == InitTrunc /\ [][NextTrunc]_vars

\* truncate_content is straight-line synchronous code: while a statement is
\* left to execute, it executes
SpecTruncFair == SpecTrunc /\ WF_vars(NextTrunc)

(***************************************************************************)
(* Properties                                                              *)
(***************************************************************************)
RowsOf(f) == {s \in summaries : s.fetch_id = f}
SentFlag(f) == \E s \in RowsOf(f) : s.sent
StoredOf(f) == LET hit(b) == b.fetch_id = f IN SelectSeq(bullets, hit)
RunOver == pc \in {"done", "failed"} /\ fetch_id # 0

\* every enabled channel delivered; a channel switched off by its flag or
\* left without recipients counts as skipped by configuration
ChannelDelivered(res) == res \in {"skipped", "noop", "ok"}
TrueDelivery == ChannelDelivered(email_res) /\ ChannelDelivered(telegram_res)

AllStoredWithDecisions(f) ==
    /\ RowsOf(f) # {}
    /\ StoredOf(f) = [i \in 1..Len(processed_summary.items) |->
                        BulletRow(f, processed_summary.items[i])]
    /\ \A i \in 1..Len(StoredOf(f)) : StoredOf(f)[i].accepted # None

\* the published-bullets query selects fetch f
InPublished(f) ==
    \E s \in RowsOf(f) :
        s.sent /\ \A o \in summaries : o.sent => o.generated_at <= s.generated_at

\* C1: after any run, for the run's fetch either all of its bullets are
\* stored with non-null decisions and sent reflects true delivery of its
\* content, or the fetch is not the one the published-bullets query selects.
C1_PublicationAtomicity ==
    RunOver =>
        \/ /\ AllStoredWithDecisions(fetch_id)
           /\ SentFlag(fetch_id) <=> TrueDelivery
        \/ ~InPublished(fetch_id)

\* C2: the sent flag of the run's fetch turns true only in a step taken
\* after every enabled notification channel has succeeded for that fetch.
C2_SentOnlyAfterDelivery ==
    [][(~SentFlag(fetch_id) /\ SentFlag(fetch_id)') => TrueDelivery]_vars

\* C3 (as stated): the merged candidate list never holds two items with
\* identical text, whatever today's list and the carryover list are.
C3_NoDuplicateText ==
    pc = "merged" =>
        \A i, j \in 1..Len(merged.items) :
            merged.items[i].text = merged.items[j].text => i = j

\* C3 (amended): two items of the merged list share a text only when both
\* are today's own bullets; no appended carryover bullet repeats a text of
\* today's list or of another carryover bullet.
C3_DuplicatesOnlyWithinToday ==
    pc = "merged" =>
        \A i, j \in 1..Len(merged.items) :
            (i < j /\ merged.items[i].text = merged.items[j].text)
                => j <= Len(summary.items)

C3_Witness ==
    /\ pc = "merged"
    /\ \E c \in Range(carryover_bullets) :
           c.text \in {b.text : b \in Range(summary.items)}
    /\ Len(merged.items) > Len(summary.items)

\* title tokens + kept body tokens + separator tokens per article
AccountedTotal == InitialTotal(title_tok, keep_body)
TruncFinished == tpc \in {"returned", "rebuilt"}

\* C4 (as stated): when truncation finishes, either the accounted total is
\* at most the ceiling or every kept body length equals the floor.
C4_FitsOrFloors ==
    TruncFinished =>
        \/ AccountedTotal <= MAX_TOKENS
        \/ \A i \in 1..Len(keep_body) : keep_body[i] = MIN_BODY_TOKENS

\* C4 (amended): when truncation finishes, either the accounted total is at
\* most the ceiling, or every kept body length equals the floor or, for a
\* body that was shorter than the floor from the start, its original length.
C4_FitsOrFloorsOrShorter ==
    TruncFinished =>
        \/ AccountedTotal <= MAX_TOKENS
        \/ \A i \in 1..Len(keep_body) :
               keep_body[i] = Min(body_tok[i], MIN_BODY_TOKENS)

C4_Witness ==
    /\ tpc = "rebuilt"
    /\ AccountedTotal > MAX_TOKENS
    /\ \E i \in 1..Len(body_tok) : body_tok[i] > MIN_BODY_TOKENS
    /\ \E i \in 1..Len(body_tok) : body_tok[i] < MIN_BODY_TOKENS

LengthMismatch ==
    /\ dedup_resp.kind = "content"
    /\ Len(dedup_resp.results) # Len(merged.items)

\* C5: when the classifier answers with a number of booleans different from
\* the number of candidates, the dedup step fails, no candidate receives a
\* decision and nothing of the fetch is persisted.
C5_LengthContract ==
    LengthMismatch =>
        /\ pc = "failed"
        /\ dedup_res = "mismatch"
        /\ processed_summary = NoSummary
        /\ \A i \in 1..Len(merged.items) : merged.items[i].accepted = None
        /\ RowsOf(fetch_id) = {}
        /\ StoredOf(fetch_id) = <<>>

C5_Witness ==
    /\ LengthMismatch
    /\ Len(merged.items) >= 1
    /\ Len(dedup_resp.results) >= 1

\* no run is under way: the store is what the next run's queries will read
BetweenRuns == pc \in {"idle", "done", "failed"}

\* a stored bullet the carryover query has to return
Carried(k) ==
    /\ bullets[k].accepted = SomeTrue
    /\ \E s \in summaries :
         /\ s.fetch_id = bullets[k].fetch_id
         /\ ~s.sent
         /\ \A o \in summaries : o.sent => o.generated_at < s.generated_at

CarryoverExact(r) ==
    /\ \A i \in 1..Len(r) :
         /\ r[i].accepted = SomeTrue
         /\ \E k \in 1..Len(bullets) : Carried(k) /\ bullets[k].text = r[i].text
    /\ \A k \in 1..Len(bullets) :
         Carried(k) => \E i \in 1..Len(r) : r[i].text = bullets[k].text

AcceptedIdx(f) ==
    {k \in 1..Len(bullets) :
        bullets[k].fetch_id = f /\ bullets[k].accepted = SomeTrue}

PublishedExact(r) ==
    IF \A s \in summaries : ~s.sent
    THEN r = <<>>
    ELSE \E s \in summaries :
           /\ s.sent
           /\ \A o \in summaries : o.sent => o.generated_at <= s.generated_at
           /\ Len(r) = Cardinality(AcceptedIdx(s.fetch_id))
           /\ \A i \in 1..Len(r) :
                /\ r[i].accepted = SomeTrue
                /\ \E k \in AcceptedIdx(s.fetch_id) : bullets[k].text = r[i].text
           /\ \A k \in AcceptedIdx(s.fetch_id) :
                \E i \in 1..Len(r) : r[i].text = bullets[k].text

\* C7: on the store any run leaves, and in the run that reads it, the
\* published-bullets query returns exactly the accepted bullets of
\* the most recent fetch with sent = true, the empty list when no fetch was
\* ever sent, and never a bullet of an older sent fetch.
C7_PublishedQuery ==
    /\ BetweenRuns =>
         \A r \in LatestPublishedBullets(summaries, bullets) : PublishedExact(r)
    /\ pc = "pub_loaded" => PublishedExact(published_bullets)

\* two sent fetches, each with an accepted bullet, with different texts
C7_Witness ==
    \E o, s \in summaries :
        /\ o.sent /\ s.sent /\ o.generated_at < s.generated_at
        /\ \E k \in AcceptedIdx(o.fetch_id) :
              \A j \in AcceptedIdx(s.fetch_id) : bullets[k].text # bullets[j].text
        /\ AcceptedIdx(s.fetch_id) # {}

\* C8 (as stated): at most one stored summary carries sent = true.
C8_AtMostOneSent == Cardinality(SentRows(summaries)) <= 1

\* C8 (amended): any number of summaries may carry sent = true, but the
\* published-bullets query selects exactly one of them at a time, the one
\* generated last.
C8_OnePublishedFetch ==
    SentRows(summaries) # {} =>
        /\ Cardinality(LatestPublishedFetch(summaries)) = 1
        /\ \A f \in LatestPublishedFetch(summaries) : InPublished(f)

C8_Witness == Cardinality(SentRows(summaries)) >= 2

\* C9: insert_summary is all or nothing: while it runs and after it fails
\* the store holds neither the summary row nor a bullet of the fetch; after
\* it succeeds the store holds the mood and every bullet with its accepted
\* value; bullets are never stored without their summary row.
C9_InsertSummaryAtomic ==
    /\ (pc \in {"tx_mood", "tx_bullets"} \/ persist_res = "err") =>
          RowsOf(fetch_id) = {} /\ StoredOf(fetch_id) = <<>>
    /\ persist_res = "ok" =>
          /\ \E s \in RowsOf(fetch_id) :
                RowsOf(fetch_id) = {s} /\ s.mood_text = processed_summary.mood
          /\ StoredOf(fetch_id) = [i \in 1..Len(processed_summary.items) |->
                                     BulletRow(fetch_id, processed_summary.items[i])]
    /\ \A f \in fetches : RowsOf(f) = {} => StoredOf(f) = <<>>

C9_Witness ==
    /\ persist_res = "err"
    /\ Len(processed_summary.items) >= 2

\* C10: when persisting the summary fails the run aborts, nothing of the
\* fetch stays in the store, no notification is attempted and the fetch's
\* sent flag is not set.
C10_PersistFailureAborts ==
    persist_res = "err" =>
        /\ pc = "failed"
        /\ email_res = "none" /\ telegram_res = "none"
        /\ ~SentFlag(fetch_id)
        /\ ~InPublished(fetch_id)

C10_Witness ==
    /\ persist_res = "err"
    /\ ~no_email /\ ~no_telegram
    /\ Len(processed_summary.items) >= 1

\* truncate_content has counted the bodies: keep_body is defined
Counted == tpc \in {"returned", "loop", "rebuild", "rebuilt"}

\* C11: at every step of the truncation and for every article i,
\* min(original body tokens of i, floor) <= keep[i] <= original body tokens
\* of i: a body at or below the floor is never trimmed, a body above it is
\* never trimmed below the floor, and no body grows.
C11_TruncationMonotone ==
    Counted =>
        /\ Len(keep_body) = Len(body_tok)
        /\ \A i \in 1..Len(body_tok) :
              /\ Min(body_tok[i], MIN_BODY_TOKENS) <= keep_body[i]
              /\ keep_body[i] <= body_tok[i]

\* one body trimmed down to the floor next to a short body left alone
C11_Witness ==
    /\ tpc = "rebuilt"
    /\ \E i \in 1..Len(body_tok) :
          body_tok[i] > MIN_BODY_TOKENS /\ keep_body[i] = MIN_BODY_TOKENS
    /\ \E i \in 1..Len(body_tok) :
          body_tok[i] \in 1..(MIN_BODY_TOKENS - 1) /\ keep_body[i] = body_tok[i]

\* C12: when the titles, the full bodies and the separators fit under the
\* ceiling, no body is trimmed and the text returned is, article after
\* article in input order, the title, a blank line and the body exactly as
\* given (not decoded from tokens), with a blank line between articles.
C12_NoOpWhenFits ==
    (Counted /\ InitialTotal(title_tok, body_tok) <= MAX_TOKENS) =>
        /\ tpc = "returned"
        /\ keep_body = body_tok
        /\ Len(combined_text) =
              IF Len(body_tok) = 0 THEN 0 ELSE 4 * Len(body_tok) - 1
        /\ \A i \in 1..Len(body_tok) :
              /\ combined_text[4 * i - 3] = Piece("og_title", i, title_tok[i])
              /\ combined_text[4 * i - 2] = Piece("\n\n", 0, 0)
              /\ combined_text[4 * i - 1] = Piece("text", i, body_tok[i])
              /\ i < Len(body_tok) => combined_text[4 * i] = Piece("\n\n", 0, 0)

\* three articles of different sizes that fit together
C12_Witness ==
    /\ tpc = "returned"
    /\ Len(body_tok) = 3
    /\ body_tok[1] > body_tok[2] /\ body_tok[2] > body_tok[3]
    /\ title_tok[1] # title_tok[2]

\* C13: the trimming loop terminates for every input: an iteration that
\* does not leave the loop takes at least one token from some body and
\* gives none back (also when the largest bodies are tied), the call
\* eventually returns, and the loop is left either within the ceiling or
\* with no body strictly above the floor.
C13_LoopTerminates ==
    /\ [][(tpc = "loop" /\ tpc' = "loop") =>
            /\ SumSeq(keep_body') < SumSeq(keep_body)
            /\ total' < total
            /\ \A i \in 1..Len(keep_body) : keep_body'[i] <= keep_body[i]]_vars
    /\ <>(TruncFinished \/ tpc = "panicked")
    /\ [](tpc \in {"rebuild", "rebuilt"} =>
            \/ total <= MAX_TOKENS
            \/ \A i \in 1..Len(keep_body) : keep_body[i] <= MIN_BODY_TOKENS)

\* the two largest bodies were tied from the start and the loop trimmed
C13_Witness ==
    /\ tpc = "rebuilt"
    /\ \E i, j \in 1..Len(body_tok) :
          /\ i < j
          /\ body_tok[i] = body_tok[j]
          /\ \A k \in 1..Len(body_tok) : body_tok[k] <= body_tok[i]
          /\ keep_body[i] < body_tok[i]
          /\ keep_body[j] < body_tok[j]

\* position of the carryover bullet with text t in the list the store returned
CarryPos(t) ==
    CHOOSE k \in 1..Len(carryover_bullets) : carryover_bullets[k].text = t

\* C14: in the merged list every bullet of today's summary comes before
\* every carryover bullet, today's bullets stand in the order the summary
\* had them, and the carryover bullets stand in the order the store
\* returned them.
C14_MergeOrder ==
    pc = "merged" =>
        LET n == Len(summary.items)
            m == merged.items
        IN /\ Len(m) >= n
           /\ \A i \in 1..n : m[i].text = summary.items[i].text
           /\ \A i \in (n + 1)..Len(m) :
                 \E k \in 1..Len(carryover_bullets) :
                     carryover_bullets[k].text = m[i].text
           /\ \A i, j \in (n + 1)..Len(m) :
                 i < j => CarryPos(m[i].text) < CarryPos(m[j].text)

\* two different today bullets followed by two carryover bullets
C14_Witness ==
    /\ pc = "merged"
    /\ Len(summary.items) = 2
    /\ summary.items[1].text # summary.items[2].text
    /\ Len(merged.items) >= 4

\* indexes of the carryover bullets whose text is neither a text of today's
\* summary nor the text of an earlier carryover bullet
FreshIdx ==
    {k \in 1..Len(carryover_bullets) :
        /\ \A i \in 1..Len(summary.items) :
              summary.items[i].text # carryover_bullets[k].text
        /\ \A j \in 1..(k - 1) :
              carryover_bullets[j].text # carryover_bullets[k].text}

\* the i-th fresh carryover bullet
FreshAt(i) ==
    CHOOSE k \in FreshIdx : Cardinality({j \in FreshIdx : j <= k}) = i

\* C15: the merged list is today's bullets followed by exactly the
\* carryover bullets whose text equals neither a today text nor an earlier
\* carryover text, and every merged bullet has accepted = None; mood and
\* date are today's.
C15_MergeExact ==
    pc = "merged" =>
        LET n == Len(summary.items)
            m == merged.items
        IN /\ Len(m) = n + Cardinality(FreshIdx)
           /\ \A i \in 1..n : m[i] = Bullet(summary.items[i].text, None)
           /\ \A i \in 1..Cardinality(FreshIdx) :
                 m[n + i] = Bullet(carryover_bullets[FreshAt(i)].text, None)
           /\ merged.mood = summary.mood /\ merged.date = summary.date

\* a carryover bullet dropped for a today text, between two that are kept
C15_Witness ==
    /\ pc = "merged"
    /\ Len(carryover_bullets) = 3
    /\ Len(summary.items) >= 1
    /\ carryover_bullets[2].text = summary.items[1].text
    /\ Len(merged.items) = Len(summary.items) + 2

\* C16: on success the novelty filter returns as many bullets as it was
\* given, with the same texts in the same order and the same mood and date,
\* and bullet i carries accepted = Some(results[i]): none is left
\* unevaluated.
C16_FilterOnlyFillsDecisions ==
    dedup_res = "ok" =>
        /\ dedup_resp.kind = "content"
        /\ Len(processed_summary.items) = Len(merged.items)
        /\ Len(dedup_resp.results) = Len(merged.items)
        /\ \A i \in 1..Len(merged.items) :
              /\ processed_summary.items[i].text = merged.items[i].text
              /\ processed_summary.items[i].accepted =
                    (IF dedup_resp.results[i] THEN SomeTrue ELSE SomeFalse)
        /\ processed_summary.mood = merged.mood
        /\ processed_summary.date = merged.date

\* two different candidates, the first rejected and the second accepted
C16_Witness ==
    /\ dedup_res = "ok"
    /\ Len(merged.items) = 2
    /\ merged.items[1].text # merged.items[2].text
    /\ dedup_resp.results = <<FALSE, TRUE>>

\* C17: of two candidates of one batch that duplicate each other (here:
\* that have the same text) at most one has accepted = true among the
\* bullets persisted for the fetch once the run has delivered its message
\* and marked the fetch sent.
C17_DuplicatesNotBothAccepted ==
    (/\ pc = "done"
     /\ SentFlag(fetch_id)
     /\ (email_res = "ok" \/ telegram_res = "ok")) =>
        \A i, j \in 1..Len(StoredOf(fetch_id)) :
            (i < j /\ StoredOf(fetch_id)[i].text = StoredOf(fetch_id)[j].text)
               => ~(/\ StoredOf(fetch_id)[i].accepted = SomeTrue
                    /\ StoredOf(fetch_id)[j].accepted = SomeTrue)

C19_DedupCallTimesOut ==
    (pc = "dedup_wait") ~> (pc # "dedup_wait")

\* C20: a step of a run changes the sent flag of no fetch but the one the
\* run created, and changes it only from false to true.
C20_OnlyOwnFetchMarked ==
    [][\A f \in fetches :
          (SentFlag(f)' # SentFlag(f)) =>
              /\ f = fetch_id
              /\ fetch_id' = fetch_id
              /\ SentFlag(f)']_vars

\* the second run marks its fetch while the first run's fetch stays unsent
C20_Witness ==
    /\ pc = "done"
    /\ fetch_id = 2
    /\ SentFlag(2)
    /\ RowsOf(1) # {}
    /\ ~SentFlag(1)

\* C21: mark_summary_sent is idempotent: a call leaves the fetch's summary
\* sent, every other summary and all bullets as they were, and a call
\* repeated for the same fetch leaves the store as the first call left it.
C21_MarkSentIdempotent ==
    [][/\ bullets' = bullets
       /\ fetches' = fetches
       /\ {s \in summaries' : s.fetch_id # fetch_id'} =
             {s \in summaries : s.fetch_id # fetch_id'}
       /\ {[s EXCEPT !.sent = TRUE] : s \in summaries'} =
             {[s EXCEPT !.sent = TRUE] : s \in summaries}
       /\ \A s \in summaries : s.sent => s \in summaries'
       /\ (pc' = "marked_again" /\ SentFlag(fetch_id)) => summaries' = summaries]_vars

\* the call was repeated for a fetch that is sent, next to an unsent fetch
\* with a bullet
C21_Witness ==
    /\ pc = "marked_again"
    /\ SentFlag(fetch_id)
    /\ \E s \in summaries : s.fetch_id # fetch_id /\ ~s.sent
    /\ bullets # <<>>

\* the piece of the returned text that holds the body of article i
BodyPiece(i) == combined_text[4 * i - 1]

\* C22: a failure of the tokenizer never shows as a returned text with a
\* body dropped or emptied: whenever truncate_content returns a text, every
\* article is in it and its body holds the tokens the plan keeps for it.
C22_NoSilentlyEmptiedBody ==
    TruncFinished =>
        /\ Len(combined_text) =
              IF Len(body_tok) = 0 THEN 0 ELSE 4 * Len(body_tok) - 1
        /\ \A i \in 1..Len(body_tok) :
              /\ BodyPiece(i).art = i
              /\ BodyPiece(i).n = keep_body[i]

\* C23: every shave of the loop is taken from one article whose kept
\* length is the largest of all articles at that moment; no body is shaved
\* while another body is strictly longer.
C23_LargestFirst ==
    [][(tpc = "loop" /\ keep_body' # keep_body) =>
          \E i \in 1..Len(keep_body) :
              /\ keep_body'[i] < keep_body[i]
              /\ \A j \in 1..Len(keep_body) : keep_body[j] <= keep_body[i]
              /\ \A j \in 1..Len(keep_body) :
                    j # i => keep_body'[j] = keep_body[j]]_vars

\* the longer of two trimmable bodies was trimmed, the shorter one was not
C23_Witness ==
    /\ tpc = "rebuilt"
    /\ \E i, j \in 1..Len(body_tok) :
          /\ body_tok[i] > body_tok[j]
          /\ body_tok[j] > MIN_BODY_TOKENS
          /\ keep_body[i] < body_tok[i]
          /\ keep_body[j] = body_tok[j]

\* C24: no shave exceeds what is still needed: while and after the loop
\* runs the total (which stays the accounted total of the kept lengths)
\* never falls below the ceiling, and when the loop ends within budget the
\* final total is the ceiling exactly.
C24_NeverOverTrims ==
    tpc \in {"loop", "rebuild", "rebuilt"} =>
        /\ total = AccountedTotal
        /\ total >= MAX_TOKENS
        /\ (tpc # "loop" /\ AccountedTotal <= MAX_TOKENS)
              => AccountedTotal = MAX_TOKENS
        /\ SumSeq(body_tok) - SumSeq(keep_body)
              <= InitialTotal(title_tok, body_tok) - MAX_TOKENS

\* a long body next to a much shorter trimmable one, cut to fit exactly
C24_Witness ==
    /\ tpc = "rebuilt"
    /\ total = MAX_TOKENS
    /\ \E i, j \in 1..Len(body_tok) :
          /\ body_tok[i] = 100000 /\ body_tok[j] = 41
          /\ keep_body[i] < body_tok[i]
          /\ keep_body[i] > 50000

C26_PublicationBoundary ==
    /\ ((BetweenRuns \/ pc = "carry_loaded") /\ SentRows(summaries) # {}) =>
          \A p \in CarryoverRows(summaries, bullets) :
              \A s \in SentRows(summaries), o \in summaries :
                  o.generated_at <= s.generated_at =>
                      bullets[p[1]].fetch_id # o.fetch_id
    /\ pc = "carry_loaded" =>
          \A i \in 1..Len(carryover_bullets) :
              \E k \in 1..Len(bullets), o \in summaries :
                  /\ bullets[k].text = carryover_bullets[i].text
                  /\ o.fetch_id = bullets[k].fetch_id
                  /\ \A s \in SentRows(summaries) :
                        s.generated_at < o.generated_at

\* a later run has read its carryover while an earlier fetch with an
\* accepted bullet is sent
C26_Witness ==
    /\ pc = "carry_loaded"
    /\ \E s \in SentRows(summaries) :
          s.fetch_id # fetch_id /\ AcceptedIdx(s.fetch_id) # {}

\* C27: stored bullets are immutable across runs: no step changes or
\* removes a stored bullet row, rows are only added at the end; when a run
\* persists its summary, every bullet it carried over keeps its original
\* row, accepted = true, under its old fetch, and a new row with its text
\* is added under the run's own fetch.
C27_StoredBulletsImmutable ==
    [][/\ Len(bullets) <= Len(bullets')
       /\ \A k \in 1..Len(bullets) : bullets'[k] = bullets[k]
       /\ \A j \in (Len(bullets) + 1)..Len(bullets') :
             bullets'[j].fetch_id = fetch_id
       /\ (persist_res = "none" /\ persist_res' = "ok") =>
             \A i \in 1..Len(carryover_bullets) :
                 /\ \E k \in 1..Len(bullets) :
                       /\ bullets[k].text = carryover_bullets[i].text
                       /\ bullets[k].fetch_id # fetch_id
                       /\ bullets'[k].accepted = SomeTrue
                 /\ \E j \in (Len(bullets) + 1)..Len(bullets') :
                       bullets'[j].text = carryover_bullets[i].text]_vars

\* a carried-over bullet was re-evaluated and rejected: its new row stands
\* under the new fetch next to the accepted original
C27_Witness ==
    /\ persist_res = "ok"
    /\ carryover_bullets # <<>>
    /\ \E k, j \in 1..Len(bullets) :
          /\ bullets[k].text = carryover_bullets[1].text
          /\ bullets[j].text = bullets[k].text
          /\ bullets[k].fetch_id < fetch_id
          /\ bullets[k].accepted = SomeTrue
          /\ bullets[j].fetch_id = fetch_id
          /\ bullets[j].accepted = SomeFalse

\* C28: single-writer discipline: at most one task owns a connection to
\* the store at any moment and only run_scraper or the writer task ever
\* does; every article row is inserted by a step of the writer task; the
\* summary, the bullets and the sent flag are written only after the writer
\* task has ended; a step of a scrape task writes nothing to the store.
C28_SingleWriter ==
    [][/\ Cardinality(db_handles') <= 1
       /\ db_handles' \subseteq {"main", "writer"}
       /\ articles' # articles =>
             /\ writer = "recv" /\ article # 0
             /\ db_handles = {"writer"}
             /\ articles' = articles \cup {article}
             /\ task' = task /\ spc' = spc
       /\ (summaries' # summaries \/ bullets' # bullets) =>
             /\ writer = "done"
             /\ db_handles = {"main"}
       /\ task' # task =>
             UNCHANGED <<fetches, summaries, bullets, articles>>]_vars

\* the writer inserted the articles of two scrape tasks, and after it ended
\* the run stored its summary and marked it sent
C28_Witness ==
    /\ Cardinality(articles) >= 2
    /\ pc = "done"
    /\ SentFlag(fetch_id)

\* the writer logged an insert attempt for article i
Attempted(i) == \E ok \in BOOLEAN : <<i, ok>> \in writer_log

\* scrape task i exists and stands at st
TaskIs(i, st) == IF i \in new_urls THEN task[i] = st ELSE FALSE

\* C29: the scrape stage loses nothing and cannot deadlock: an article a
\* scrape task sent is in the channel, in the writer's hands or already
\* attempted; no send fails; the writer ends only when run_scraper dropped
\* its Sender, every scrape task finished and every sent article had its
\* insert attempted; the articles are loaded only after that and are the
\* ones inserted; while no extractor is pending some step of the stage can
\* always be taken; a waiting send is completed, and once all scrape tasks
\* finished and the Sender is dropped the writer ends and is joined.
C29_StageLosslessNoDeadlock ==
    /\ [](/\ \A i \in new_urls :
               /\ task[i] # "closed"
               /\ task[i] = "sent" =>
                     \/ \E k \in 1..Len(chan) : chan[k] = i
                     \/ article = i
                     \/ Attempted(i)
          /\ Len(chan) <= ChanCap
          /\ writer = "done" =>
               /\ ~tx /\ chan = <<>> /\ article = 0
               /\ \A i \in new_urls :
                    /\ task[i] \in {"unspawned", "failed", "sent"}
                    /\ task[i] = "sent" => Attempted(i)
          /\ spc \in {"joined", "loaded"} => writer = "done"
          /\ spc = "loaded" =>
               /\ previous_articles = articles
               /\ articles = {i \in new_urls : <<i, TRUE>> \in writer_log}
          /\ (pc = "created" /\ \A i \in new_urls : task[i] # "extract")
               => ENABLED StageSteps)
    /\ \A i \in 1..MaxUrls :
          TaskIs(i, "send") ~> TaskIs(i, "sent")
    /\ (~tx /\ spc # "channel"
            /\ \A i \in new_urls : task[i] \notin {"extract", "send"})
          ~> (writer = "done")
    /\ (spc = "await" /\ writer = "done") ~> (spc = "joined")

\* three scrape tasks sent their articles through the channel; the writer
\* attempted all three, one insert failed, and the run loaded the other two
C29_Witness ==
    /\ spc = "loaded"
    /\ \A i \in new_urls : task[i] = "sent"
    /\ Cardinality(previous_articles) >= 2
    /\ \E i \in new_urls : <<i, FALSE>> \in writer_log

\* the bullets of the run's summary the classifier accepted, in order
AcceptedItems ==
    LET yes(b) == b.accepted = SomeTrue
    IN SelectSeq(processed_summary.items, yes)

\* text t is the mood followed by one "- text" line per accepted bullet
MoodThenAccepted(t) ==
    /\ Len(t) = 1 + 3 * Len(AcceptedItems)
    /\ t[1] = processed_summary.mood
    /\ \A k \in 1..Len(AcceptedItems) :
         /\ t[3 * k - 1] = "\n\n"
         /\ t[3 * k] = "- "
         /\ t[3 * k + 1] = AcceptedItems[k].text

\* C30: the text handed to a notification channel is the mood followed by
\* exactly the accepted bullets in summary order: a rejected or unevaluated
\* bullet adds nothing to it, although by then every rejected bullet is
\* stored under the fetch.
C30_OnlyAcceptedDelivered ==
    /\ email_res \in {"ok", "noop", "err"} => MoodThenAccepted(email_text)
    /\ telegram_res \in {"ok", "noop", "err"} => MoodThenAccepted(telegram_text)
    /\ (email_res # "none" \/ telegram_res # "none") =>
          \A i \in 1..Len(processed_summary.items) :
              \E k \in 1..Len(bullets) :
                  bullets[k] = BulletRow(fetch_id, processed_summary.items[i])

\* both channels delivered a summary with a rejected bullet in front of an
\* accepted one with another text
C30_Witness ==
    /\ email_res = "ok" /\ telegram_res = "ok"
    /\ Len(processed_summary.items) = 2
    /\ processed_summary.items[1].accepted = SomeFalse
    /\ processed_summary.items[2].accepted = SomeTrue
    /\ processed_summary.items[1].text # processed_summary.items[2].text

====
